---- MODULE Spec2Model ----
(***************************************************************************)
(* Model of the AI agent marketplace server (server.js, held in            *)
(* src/unnamed/part_000): the in-memory session map, the SQLite tables     *)
(* users / agents / ratings, and the handlers that write them              *)
(* (/api/login, /api/logout, /api/profile, /submit, /rate).                *)
(*                                                                         *)
(* Conventions                                                             *)
(*  - a JavaScript string is a tuple of one-character strings, so that     *)
(*    parseInt and the URL regular expression are computed, not assumed;   *)
(*  - UNDEF is the JavaScript undefined of an absent body field or header, *)
(*    NULL the JavaScript null / SQL NULL of a text column;                *)
(*  - a nullable integer (an SQL INTEGER column, a parseInt result) is a   *)
(*    set with at most one element: {} is NULL / NaN, {n} the number n.    *)
(***************************************************************************)
EXTENDS Integers, Sequences, FiniteSets, Bags, TLC

VARIABLES
    sessions,      \* const sessions = new Map(): token -> walletAddress
    users,         \* rows of table users
    usersSeq,      \* AUTOINCREMENT high-water mark of users.id
    agents,        \* rows of table agents; the row's id is its index
    ratings,       \* rows of table ratings; the row's id is its index
    pendingLogin,  \* logins whose upsert ran and whose callback has not
    pendingIncr,   \* fork_count UPDATEs queued by /submit and not yet run
    now,           \* CURRENT_TIMESTAMP
    last,          \* the step just taken: request, resolved user, response
    issued,        \* history: tokens handed out by a login, not logged out since
    revoked,       \* history: tokens logged out and not handed out again since
    raters,        \* history: req.user of the request behind each ratings row
    storeFailed    \* history: some store statement has failed

vars == <<sessions, users, usersSeq, agents, ratings, pendingLogin,
          pendingIncr, now, last, issued, revoked, raters, storeFailed>>

sessionVars == <<sessions, users, usersSeq, pendingLogin, now, issued, revoked>>
storeVars == <<agents, ratings, pendingIncr, raters>>

-----------------------------------------------------------------------------
(* Bounds of the model *)

MaxAgents == 3
MaxRatings == 3
MaxLogins == 3
MaxTime == 1

-----------------------------------------------------------------------------
(* JavaScript values *)

UNDEF == <<"undefined">>
NULL == <<"null">>

NaN == {}

Falsy(s) == s = UNDEF \/ s = NULL \/ s = <<>>

Truthy(s) == ~Falsy(s)

DecDigits == {"0", "1", "2", "3", "4", "5", "6", "7", "8", "9"}
LowerChars == {"a", "b", "c", "d", "e", "f", "g", "h", "i", "j", "k", "l", "m",
               "n", "o", "p", "q", "r", "s", "t", "u", "v", "w", "x", "y", "z"}
UpperChars == {"A", "B", "C", "D", "E", "F", "G", "H", "I", "J", "K", "L", "M",
               "N", "O", "P", "Q", "R", "S", "T", "U", "V", "W", "X", "Y", "Z"}
WhiteChars == {" ", "\t", "\n", "\r"}

DigitOrder == <<"0", "1", "2", "3", "4", "5", "6", "7", "8", "9",
                "a", "b", "c", "d", "e", "f">>
UpperHex == <<"A", "B", "C", "D", "E", "F">>

\* the value of digit c in the given radix, or -1 when c is no such digit
DigitValue(c, radix) ==
    IF \E i \in 1..radix : DigitOrder[i] = c
    THEN (CHOOSE i \in 1..radix : DigitOrder[i] = c) - 1
    ELSE IF radix = 16 /\ \E i \in 1..6 : UpperHex[i] = c
         THEN 9 + (CHOOSE i \in 1..6 : UpperHex[i] = c)
         ELSE -1

Drop(s, n) == SubSeq(s, n + 1, Len(s))

RECURSIVE SkipWhite(_)
SkipWhite(s) ==
    IF s # <<>> /\ Head(s) \in WhiteChars THEN SkipWhite(Tail(s)) ELSE s

\* the digits of s read left to right until the first non-digit:
\* <<number of digits read, their value>>
RECURSIVE ReadDigits(_, _, _, _)
ReadDigits(s, radix, count, acc) ==
    IF s = <<>> \/ DigitValue(Head(s), radix) < 0
    THEN <<count, acc>>
    ELSE ReadDigits(Tail(s), radix, count + 1,
                    acc * radix + DigitValue(Head(s), radix))

ParseIntMissingAsOne(s) ==
    LET t == IF s = UNDEF \/ s = NULL THEN <<>> ELSE SkipWhite(s)
        neg == t # <<>> /\ Head(t) = "-"
        u == IF t # <<>> /\ Head(t) \in {"-", "+"} THEN Tail(t) ELSE t
        hex == Len(u) >= 2 /\ u[1] = "0" /\ u[2] \in {"x", "X"}
        r == IF hex THEN ReadDigits(Drop(u, 2), 16, 0, 0)
             ELSE ReadDigits(u, 10, 0, 0)
    IN  IF r[1] = 0 THEN {1} ELSE {IF neg THEN 0 - r[2] ELSE r[2]}

\* parseInt(s) with no radix argument: leading white space, a sign, an 0x
\* prefix, then the longest run of digits; NaN when there is none
ParseInt(s) ==
    LET t == IF s = UNDEF \/ s = NULL THEN <<>> ELSE SkipWhite(s)
        neg == t # <<>> /\ Head(t) = "-"
        u == IF t # <<>> /\ Head(t) \in {"-", "+"} THEN Tail(t) ELSE t
        hex == Len(u) >= 2 /\ u[1] = "0" /\ u[2] \in {"x", "X"}
        r == IF hex THEN ReadDigits(Drop(u, 2), 16, 0, 0)
             ELSE ReadDigits(u, 10, 0, 0)
    IN  IF r[1] = 0 THEN NaN ELSE {IF neg THEN 0 - r[2] ELSE r[2]}

IsNaN(n) == n = NaN

Num(n) == CHOOSE x \in n : TRUE

\* a JavaScript number used as a condition: NaN and 0 are false
TruthyNum(n) == ~IsNaN(n) /\ Num(n) # 0

-----------------------------------------------------------------------------
\* The URL shape of /submit: an optional http:// or https://, a host of one or
\* more of [0-9a-z.-], a dot, a top-level part of 2 to 6 of [a-z.], then any
\* number of [/A-Za-z0-9_ .-] up to the end of the string.

HostChars == DecDigits \cup LowerChars \cup {".", "-"}
TldChars == LowerChars \cup {"."}
PathChars == DecDigits \cup LowerChars \cup UpperChars \cup {"_", "/", " ", ".", "-"}

AllIn(s, from, to, chars) == \A i \in from..to : s[i] \in chars

HasPrefix(s, p) == Len(s) >= Len(p) /\ SubSeq(s, 1, Len(p)) = p

SchemeLengths(s) ==
    {0} \cup (IF HasPrefix(s, <<"h", "t", "t", "p", ":", "/", "/">>) THEN {7} ELSE {})
        \cup (IF HasPrefix(s, <<"h", "t", "t", "p", "s", ":", "/", "/">>) THEN {8} ELSE {})

\* urlPattern.test(s): s splits into scheme? host "." tld path
UrlPatternTest(s) ==
    \E p \in SchemeLengths(s) :
      \E dot \in (p + 2)..Len(s) :
        \E k \in 2..6 :
          /\ s[dot] = "."
          /\ AllIn(s, p + 1, dot - 1, HostChars)
          /\ dot + k <= Len(s)
          /\ AllIn(s, dot + 1, dot + k, TldChars)
          /\ AllIn(s, dot + k + 1, Len(s), PathChars)

-----------------------------------------------------------------------------
(* Inputs *)

WalletA == <<"0", "x", "a">>
WalletB == <<"0", "x", "b">>
Wallets == {WalletA, WalletB}

\* what generateSessionId can return
TokenA == <<"k", "1">>
TokenB == <<"k", "2">>
Tokens == {TokenA, TokenB}

\* the x-session-id header of a request: absent, empty, or a token
TokenHeaders == Tokens \cup {UNDEF, <<>>}

\* the walletAddress of a login body
LoginWallets == Wallets \cup {UNDEF, <<>>}

-----------------------------------------------------------------------------
(* The session map *)

EmptyMap == [x \in {} |-> NULL]

MapHas(m, k) == k \in DOMAIN m

MapGet(m, k) == m[k]

MapSet(m, k, v) == [x \in (DOMAIN m) \cup {k} |-> IF x = k THEN v ELSE m[x]]

MapClear(m, k) == EmptyMap

MapKeep(m, k) == m

MapDelete(m, k) == [x \in (DOMAIN m) \ {k} |-> m[x]]

\* checkSession: req.user, or undefined
CheckSession(sessionId) ==
    IF Truthy(sessionId) /\ MapHas(sessions, sessionId)
    THEN MapGet(sessions, sessionId)
    ELSE UNDEF

\* generateSessionId: a random and time derived string, taken to differ from
\* every token still in the map
GenerateSessionId == Tokens \ DOMAIN sessions

-----------------------------------------------------------------------------
(* Table users *)

UserRow(id, wallet, t) ==
    [id |-> id, wallet_address |-> wallet, subscription_tier |-> "creator",
     lens_handle |-> NULL, farcaster_handle |-> NULL,
     created_at |-> t, last_login |-> t]

UsersOf(rows, wallet) == {u \in rows : u.wallet_address = wallet}

InsertOrReplaceUserDroppingOthers(rows, id, wallet, t) == {UserRow(id, wallet, t)}

\* INSERT OR REPLACE INTO users (wallet_address, last_login): the row that
\* conflicts on the UNIQUE wallet_address is deleted, then a new row is
\* inserted, its other columns taking their defaults
InsertOrReplaceUser(rows, id, wallet, t) ==
    (rows \ UsersOf(rows, wallet)) \cup {UserRow(id, wallet, t)}

-----------------------------------------------------------------------------
(* Initial state: a new process on a new database file *)

Init ==
    /\ sessions = EmptyMap
    /\ users = {}
    /\ usersSeq = 0
    /\ agents = <<>>
    /\ ratings = <<>>
    /\ pendingLogin = EmptyBag
    /\ pendingIncr = EmptyBag
    /\ now = 0
    /\ last = [op |-> "start"]
    /\ issued = EmptyMap
    /\ revoked = EmptyMap
    /\ raters = <<>>
    /\ storeFailed = FALSE

-----------------------------------------------------------------------------
(* Login, logout, profile *)

LoginRejectsOnlyAbsent(walletAddress) == walletAddress = UNDEF

\* if (!walletAddress) return res.status(400)
LoginRejects(walletAddress) == Falsy(walletAddress)

\* POST /api/login up to the end of its INSERT OR REPLACE statement
Login(walletAddress, dbErr) ==
    IF LoginRejects(walletAddress)
    THEN /\ last' = [op |-> "login", walletAddress |-> walletAddress, status |-> 400]
         /\ UNCHANGED <<sessionVars, storeVars, storeFailed>>
    ELSE /\ usersSeq < MaxLogins
         /\ IF dbErr \/ walletAddress = NULL
            THEN /\ last' = [op |-> "login", walletAddress |-> walletAddress,
                             status |-> 500]
                 /\ storeFailed' = TRUE
                 /\ UNCHANGED <<sessionVars, storeVars>>
            ELSE /\ users' = InsertOrReplaceUser(users, usersSeq + 1, walletAddress, now)
                 /\ usersSeq' = usersSeq + 1
                 /\ pendingLogin' = pendingLogin (+) SetToBag({walletAddress})
                 /\ last' = [op |-> "login", walletAddress |-> walletAddress,
                             status |-> 0]
                 /\ UNCHANGED <<sessions, now, issued, revoked, storeVars, storeFailed>>

\* the callback of the login's statement: the session is created and returned
LoginCallback(walletAddress, sessionId) ==
    /\ BagIn(walletAddress, pendingLogin)
    /\ sessionId \in GenerateSessionId
    /\ sessions' = MapSet(sessions, sessionId, walletAddress)
    /\ pendingLogin' = pendingLogin (-) SetToBag({walletAddress})
    /\ last' = [op |-> "loginDone", walletAddress |-> walletAddress, status |-> 200,
                success |-> TRUE, sessionId |-> sessionId]
    /\ issued' = [t \in (DOMAIN issued) \cup {sessionId} |->
                    IF t = sessionId THEN walletAddress ELSE issued[t]]
    /\ revoked' = [t \in (DOMAIN revoked) \ {sessionId} |-> revoked[t]]
    /\ UNCHANGED <<users, usersSeq, now, storeVars, storeFailed>>

\* POST /api/logout
Logout(sessionId) ==
    /\ sessions' = IF Truthy(sessionId) THEN MapDelete(sessions, sessionId) ELSE sessions
    /\ last' = [op |-> "logout", sessionId |-> sessionId, status |-> 200,
                success |-> TRUE]
    /\ issued' = [t \in (DOMAIN issued) \ {sessionId} |-> issued[t]]
    /\ revoked' = IF sessionId \in DOMAIN issued
                  THEN [t \in (DOMAIN revoked) \cup {sessionId} |->
                          IF t = sessionId THEN issued[t] ELSE revoked[t]]
                  ELSE revoked
    /\ UNCHANGED <<users, usersSeq, pendingLogin, now, storeVars, storeFailed>>

\* GET /api/profile
Profile(sessionId, dbErr) ==
    LET user == CheckSession(sessionId)
        rows == UsersOf(users, user)
    IN  /\ last' = IF user = UNDEF
                   THEN [op |-> "profile", sessionId |-> sessionId, status |-> 401]
                   ELSE IF dbErr
                   THEN [op |-> "profile", sessionId |-> sessionId, status |-> 500]
                   ELSE [op |-> "profile", sessionId |-> sessionId, status |-> 200,
                         body |-> IF rows = {} THEN {[walletAddress |-> user]} ELSE rows]
        /\ UNCHANGED <<sessionVars, storeVars, storeFailed>>

\* a second passes
Tick ==
    /\ now < MaxTime
    /\ now' = now + 1
    /\ last' = [op |-> "tick"]
    /\ UNCHANGED <<sessions, users, usersSeq, pendingLogin, issued, revoked,
                   storeVars, storeFailed>>

-----------------------------------------------------------------------------
(* Table agents and POST /submit *)

Str_Bot1 == <<"B", "o", "t", "1">>
Str_Bot2 == <<"B", "o", "t", "2">>
Str_d == <<"d">>
Str_e == <<"e">>
Str_Other == <<"O", "t", "h", "e", "r">>
Str_DeFi == <<"D", "e", "F", "i">>
Str_http_x_com == <<"h", "t", "t", "p", ":", "/", "/", "x", ".", "c", "o", "m">>
Str_x_io_a == <<"x", ".", "i", "o", "/", "a">>
Str_nourl == <<"n", "o", "u", "r", "l">>
Str_ftp_x_com == <<"f", "t", "p", ":", "/", "/", "x", ".", "c", "o", "m">>
Str_Qm1 == <<"Q", "m", "1">>
Str_on == <<"o", "n">>

BaseSubmit ==
    [name |-> Str_Bot1, description |-> Str_d, category |-> Str_Other,
     link |-> Str_http_x_com, ipfs_hash |-> UNDEF, is_premium |-> UNDEF,
     original_agent_id |-> UNDEF]

OtherSubmit ==
    [name |-> Str_Bot2, description |-> Str_e, category |-> Str_DeFi,
     link |-> Str_x_io_a, ipfs_hash |-> Str_Qm1, is_premium |-> Str_on,
     original_agent_id |-> UNDEF]

\* the original_agent_id values a client sends: a first or second id, an id
\* followed by other text, zero, and text that is no number
OriginalIds == {<<"1">>, <<"2">>, <<"1", "x">>, <<"0">>, <<"x">>}

ValidSubmits ==
    {BaseSubmit, OtherSubmit}
      \cup {[BaseSubmit EXCEPT !.original_agent_id = o] : o \in OriginalIds}

InvalidSubmits ==
    {[BaseSubmit EXCEPT !.name = UNDEF],
     [BaseSubmit EXCEPT !.description = <<>>],
     [BaseSubmit EXCEPT !.category = <<>>, !.original_agent_id = <<"1">>],
     [BaseSubmit EXCEPT !.link = UNDEF],
     [BaseSubmit EXCEPT !.link = Str_nourl, !.original_agent_id = <<"1">>],
     [BaseSubmit EXCEPT !.link = Str_ftp_x_com]}

SubmitRequests == ValidSubmits \cup InvalidSubmits

MissingFieldsIgnoringCategory(req) ==
    Falsy(req.name) \/ Falsy(req.description) \/ Falsy(req.link)

\* if (!name || !description || !category || !link)
MissingFields(req) ==
    Falsy(req.name) \/ Falsy(req.description) \/ Falsy(req.category) \/ Falsy(req.link)

\* a value bound to a statement parameter: undefined is stored as NULL
Bind(v) == IF v = UNDEF THEN NULL ELSE v

\* const originalAgentId = original_agent_id ? parseInt(original_agent_id) : null
OriginalAgentId(req) ==
    IF Truthy(req.original_agent_id) THEN ParseInt(req.original_agent_id) ELSE NaN

\* the row of INSERT INTO agents (name, description, category, link
\* [, original_agent_id]): every other column takes its default
AgentRow(req, t) ==
    [name |-> Bind(req.name), description |-> Bind(req.description),
     category |-> Bind(req.category), link |-> Bind(req.link),
     ipfs_hash |-> NULL, creator_wallet |-> NULL,
     original_agent_id |-> IF TruthyNum(OriginalAgentId(req))
                           THEN OriginalAgentId(req) ELSE {},
     fork_count |-> 0, is_premium |-> 0, created_at |-> t]

\* the NOT NULL columns of table agents
AgentRowRefused(row) ==
    row.name = NULL \/ row.description = NULL \/ row.category = NULL

ForkCountSetToOne(rows, id) ==
    [i \in 1..Len(rows) |->
        IF i = id THEN [rows[i] EXCEPT !.fork_count = 1] ELSE rows[i]]

IncrementForkCountByTwo(rows, id) ==
    [i \in 1..Len(rows) |->
        IF i = id THEN [rows[i] EXCEPT !.fork_count = @ + 2] ELSE rows[i]]

IncrementForkCountOfAll(rows, id) ==
    [i \in 1..Len(rows) |-> [rows[i] EXCEPT !.fork_count = @ + 1]]

\* UPDATE agents SET fork_count = fork_count + 1 WHERE id = ?
IncrementForkCount(rows, id) ==
    [i \in 1..Len(rows) |->
        IF i = id THEN [rows[i] EXCEPT !.fork_count = @ + 1] ELSE rows[i]]

\* POST /submit up to the end of the callback of its INSERT, which queues the
\* fork_count UPDATE of a fork and answers
Submit(req, sessionId, dbErr) ==
    LET creatorWallet == IF CheckSession(sessionId) # UNDEF
                         THEN CheckSession(sessionId) ELSE NULL
        originalAgentId == OriginalAgentId(req)
        row == AgentRow(req, now)
        answer(status, lastID) ==
            [op |-> "submit", req |-> req, user |-> creatorWallet,
             status |-> status, lastID |-> lastID]
    IN  IF MissingFields(req) \/ ~UrlPatternTest(req.link)
        THEN /\ last' = answer(400, 0)
             /\ UNCHANGED <<sessionVars, storeVars, storeFailed>>
        ELSE /\ Len(agents) < MaxAgents
             /\ IF dbErr \/ AgentRowRefused(row)
                THEN /\ last' = answer(500, 0)
                     /\ storeFailed' = TRUE
                     /\ UNCHANGED <<sessionVars, storeVars>>
                ELSE /\ agents' = Append(agents, row)
                     /\ pendingIncr' =
                            IF TruthyNum(originalAgentId)
                            THEN pendingIncr (+) SetToBag({Num(originalAgentId)})
                            ELSE pendingIncr
                     /\ last' = answer(302, Len(agents) + 1)
                     /\ UNCHANGED <<sessionVars, ratings, raters, storeFailed>>

\* the fork_count UPDATE that a fork's /submit queued, run by the store
ForkCountUpdate(id, dbErr) ==
    /\ BagIn(id, pendingIncr)
    /\ pendingIncr' = pendingIncr (-) SetToBag({id})
    /\ agents' = IF dbErr THEN agents ELSE IncrementForkCount(agents, id)
    /\ storeFailed' = (storeFailed \/ dbErr)
    /\ last' = [op |-> "forkCountUpdate", id |-> id, err |-> dbErr]
    /\ UNCHANGED <<sessionVars, ratings, raters>>

-----------------------------------------------------------------------------
(* Table ratings and POST /rate *)

Str_ok == <<"o", "k">>

BaseRate == [agent_id |-> <<"1">>, stars |-> <<"5">>, comment |-> UNDEF]

ValidRates ==
    {BaseRate,
     [BaseRate EXCEPT !.agent_id = <<"2">>],
     [BaseRate EXCEPT !.stars = <<"1">>],
     [BaseRate EXCEPT !.stars = <<"3", ".", "7">>, !.comment = Str_ok]}

InvalidRates ==
    {[BaseRate EXCEPT !.agent_id = v] : v \in {UNDEF, <<>>, <<"x">>}}
      \cup {[BaseRate EXCEPT !.stars = v] :
              v \in {UNDEF, <<"0">>, <<"6">>, <<"-", "1">>, <<"x", "5">>}}

RateRequests == ValidRates \cup InvalidRates

\* if (isNaN(agentIdInt) || isNaN(starsInt) || starsInt < 1 || starsInt > 5)
RateRejects(agentIdInt, starsInt) ==
    IsNaN(agentIdInt) \/ IsNaN(starsInt) \/ Num(starsInt) < 1 \/ Num(starsInt) > 5

\* the row of INSERT INTO ratings (agent_id, stars, comment): wallet_address
\* is not among the columns and stays NULL
RatingRow(agentIdInt, starsInt, comment) ==
    [agent_id |-> agentIdInt, wallet_address |-> NULL, stars |-> starsInt,
     comment |-> IF Truthy(comment) THEN comment ELSE NULL]

RatingRowRefusedNullsEqual(rows, row) ==
    \/ row.agent_id = {}
    \/ row.stars = {}
    \/ Num(row.stars) < 1
    \/ Num(row.stars) > 5
    \/ \E i \in 1..Len(rows) :
            /\ rows[i].agent_id = row.agent_id
            /\ rows[i].wallet_address = row.wallet_address

\* the constraints of table ratings: NOT NULL, CHECK (stars >= 1 AND
\* stars <= 5), UNIQUE(agent_id, wallet_address) where NULLs never conflict
RatingRowRefused(rows, row) ==
    \/ row.agent_id = {}
    \/ row.stars = {}
    \/ Num(row.stars) < 1
    \/ Num(row.stars) > 5
    \/ /\ row.wallet_address # NULL
       /\ \E i \in 1..Len(rows) :
            /\ rows[i].agent_id = row.agent_id
            /\ rows[i].wallet_address = row.wallet_address

\* POST /rate with its INSERT
Rate(req, sessionId, dbErr) ==
    LET user == CheckSession(sessionId)
        agentIdInt == ParseInt(req.agent_id)
        starsInt == ParseInt(req.stars)
        row == RatingRow(agentIdInt, starsInt, req.comment)
        answer(err) ==
            [op |-> "rate", req |-> req, user |-> user, status |-> 302, err |-> err]
    IN  IF RateRejects(agentIdInt, starsInt)
        THEN /\ last' = answer(FALSE)
             /\ UNCHANGED <<sessionVars, storeVars, storeFailed>>
        ELSE /\ Len(ratings) < MaxRatings
             /\ IF dbErr \/ RatingRowRefused(ratings, row)
                THEN /\ last' = answer(TRUE)
                     /\ storeFailed' = TRUE
                     /\ UNCHANGED <<sessionVars, storeVars>>
                ELSE /\ ratings' = Append(ratings, row)
                     /\ raters' = Append(raters, user)
                     /\ last' = answer(FALSE)
                     /\ UNCHANGED <<sessionVars, agents, pendingIncr, storeFailed>>

-----------------------------------------------------------------------------
(* GET /browse *)

\* tables tags and agent_tags: created at start, and no statement of the
\* program inserts into them
TagRows == {}
AgentTagRows == {}

LowerOrder == <<"a", "b", "c", "d", "e", "f", "g", "h", "i", "j", "k", "l", "m",
                "n", "o", "p", "q", "r", "s", "t", "u", "v", "w", "x", "y", "z">>
UpperOrder == <<"A", "B", "C", "D", "E", "F", "G", "H", "I", "J", "K", "L", "M",
                "N", "O", "P", "Q", "R", "S", "T", "U", "V", "W", "X", "Y", "Z">>

\* LIKE compares ASCII letters without regard to case
FoldCase(c) ==
    IF \E i \in 1..26 : UpperOrder[i] = c
    THEN LowerOrder[CHOOSE i \in 1..26 : UpperOrder[i] = c]
    ELSE c

\* text LIKE pattern: % stands for any run of characters, _ for any one
RECURSIVE Like(_, _)
Like(pattern, text) ==
    IF pattern = <<>> THEN text = <<>>
    ELSE IF Head(pattern) = "%"
         THEN Like(Tail(pattern), text) \/ (text # <<>> /\ Like(pattern, Tail(text)))
    ELSE IF text = <<>> THEN FALSE
    ELSE IF Head(pattern) = "_" THEN Like(Tail(pattern), Tail(text))
    ELSE FoldCase(Head(pattern)) = FoldCase(Head(text))
            /\ Like(Tail(pattern), Tail(text))

Str_all == <<"a", "l", "l">>
Str_rating == <<"r", "a", "t", "i", "n", "g">>
Str_forks == <<"f", "o", "r", "k", "s">>
Str_trending == <<"t", "r", "e", "n", "d", "i", "n", "g">>
Str_recent == <<"r", "e", "c", "e", "n", "t">>

\* `%${search}%`
SearchPattern(search) == <<"%">> \o search \o <<"%">>

WhereHoldsNameOnly(a, q) ==
    /\ (Truthy(q.category) /\ q.category # Str_all) => a.category = q.category
    /\ Truthy(q.search) => Like(SearchPattern(q.search), a.name)

\* whereClause: a.category = ? when category is given and is not 'all', AND
\* (a.name LIKE ? OR a.description LIKE ?) when search is given
WhereHolds(a, q) ==
    /\ (Truthy(q.category) /\ q.category # Str_all) => a.category = q.category
    /\ Truthy(q.search) =>
          \/ Like(SearchPattern(q.search), a.name)
          \/ Like(SearchPattern(q.search), a.description)

\* the rows that the LEFT JOINs make of agent id: one for each combination of
\* a matching user, rating and tag, 0 standing for the NULLs of a side with
\* no match
JoinedRows(id) ==
    LET orNone(S) == IF S = {} THEN {0} ELSE S
        us == orNone({u.id : u \in {x \in users :
                          x.wallet_address = agents[id].creator_wallet
                            /\ agents[id].creator_wallet # NULL}})
        rs == orNone({i \in 1..Len(ratings) : ratings[i].agent_id = {id}})
        ts == orNone({<<at.tag_id, t.id>> : at \in {x \in AgentTagRows : x.agent_id = id},
                                           t \in TagRows})
    IN  {[u |-> u, r |-> r, t |-> t] : u \in us, r \in rs, t \in ts}

RECURSIVE SumStars(_)
SumStars(rows) ==
    IF rows = {} THEN 0
    ELSE LET x == CHOOSE y \in rows : TRUE
         IN  Num(ratings[x.r].stars) + SumStars(rows \ {x})

CountRows(rows) == Cardinality(rows)

\* COUNT(r.id): the joined rows whose rating is not NULL
CountRatingIds(rows) == Cardinality({x \in rows : x.r # 0})

\* COALESCE(AVG(r.stars), 0), as the fraction <<numerator, denominator>>
AvgStars(rows) ==
    LET rated == {x \in rows : x.r # 0}
    IN  IF rated = {} THEN <<0, 1>> ELSE <<SumStars(rated), Cardinality(rated)>>

\* one row of the result: a.* and the aggregates of GROUP BY a.id
ViewRow(id) ==
    LET rows == JoinedRows(id)
        named == {x \in rows : x.t # 0}
    IN  [id |-> id, agent |-> agents[id],
         creator_wallet |-> IF \E x \in rows : x.u # 0
                            THEN agents[id].creator_wallet ELSE NULL,
         avg_rating |-> AvgStars(rows),
         rating_count |-> CountRatingIds(rows),
         tags |-> IF named = {} THEN NULL ELSE {x.t : x \in named}]

\* fractions compared by cross multiplication
FracGreater(x, y) == x[1] * y[2] > y[1] * x[2]
FracEqual(x, y) == x[1] * y[2] = y[1] * x[2]

TrendingScoreRatingsOnly(v) ==
    <<3 * v.avg_rating[1] * v.rating_count, 10 * v.avg_rating[2]>>

\* a.fork_count * 0.7 + COALESCE(AVG(r.stars), 0) * rating_count * 0.3
TrendingScore(v) ==
    <<7 * v.agent.fork_count * v.avg_rating[2] + 3 * v.avg_rating[1] * v.rating_count,
      10 * v.avg_rating[2]>>

MayPrecedeByAverageOnly(q, x, y) ==
    IF q.sort = Str_rating
    THEN ~FracGreater(y.avg_rating, x.avg_rating)
    ELSE IF q.sort = Str_forks
    THEN x.agent.fork_count >= y.agent.fork_count
    ELSE IF q.sort = Str_trending
    THEN ~FracGreater(TrendingScore(y), TrendingScore(x))
    ELSE x.agent.created_at >= y.agent.created_at

\* orderClause: whether row x may come before row y; rows that tie come in
\* either order
MayPrecede(q, x, y) ==
    IF q.sort = Str_rating
    THEN \/ FracGreater(x.avg_rating, y.avg_rating)
         \/ /\ FracEqual(x.avg_rating, y.avg_rating)
            /\ x.rating_count >= y.rating_count
    ELSE IF q.sort = Str_forks
    THEN x.agent.fork_count >= y.agent.fork_count
    ELSE IF q.sort = Str_trending
    THEN ~FracGreater(TrendingScore(y), TrendingScore(x))
    ELSE x.agent.created_at >= y.agent.created_at

\* the orders in which ORDER BY may put the rows: a row that may precede
\* every other comes first, then the rest likewise
RECURSIVE OrdersOf(_, _)
OrdersOf(q, rows) ==
    IF rows = {} THEN {<<>>}
    ELSE UNION {{<<x>> \o rest : rest \in OrdersOf(q, rows \ {x})} :
                  x \in {y \in rows : \A z \in rows : MayPrecede(q, y, z)}}

\* the results db.all may hand back: the matching agents, one row each, in an
\* order the ORDER BY clause allows
BrowseResults(q) ==
    OrdersOf(q, {ViewRow(i) : i \in {j \in 1..Len(agents) : WhereHolds(agents[j], q)}})

\* GET /browse
Browse(q, dbErr) ==
    /\ IF dbErr
       THEN last' = [op |-> "browse", query |-> q, status |-> 500]
       ELSE \E rows \in BrowseResults(q) :
               last' = [op |-> "browse", query |-> q, status |-> 200, rows |-> rows]
    /\ UNCHANGED <<sessionVars, storeVars, storeFailed>>

Str_ot == <<"o", "t">>
Str_BOT == <<"B", "O", "T">>
Str_b_1 == <<"b", "%", "1">>
Str_o_2 == <<"o", "_", "2">>
Str_E == <<"E">>
Str_zz == <<"z", "z">>

BrowseCategories == {UNDEF, Str_all, Str_Other, Str_DeFi}
BrowseSearches == {UNDEF, <<>>, Str_ot, Str_BOT, Str_b_1, Str_o_2, Str_E, Str_zz}
BrowseSorts == {Str_rating, Str_forks, Str_trending}

FilterQueries ==
    {[category |-> c, search |-> x, sort |-> UNDEF] :
        c \in BrowseCategories, x \in BrowseSearches}
      \cup {[category |-> UNDEF, search |-> UNDEF, sort |-> Str_recent]}

SortQueries ==
    {[category |-> UNDEF, search |-> UNDEF, sort |-> o] : o \in BrowseSorts}

BrowseQueries == FilterQueries \cup SortQueries

-----------------------------------------------------------------------------
(* GET /fork/:id *)

\* a number in a template literal: its decimal digits
RECURSIVE ToDecimal(_)
ToDecimal(n) ==
    IF n < 10 THEN <<DigitOrder[n + 1]>>
    ELSE ToDecimal(n \div 10) \o <<DigitOrder[(n % 10) + 1]>>

\* encodeURIComponent leaves letters, digits and - _ . ! ~ * ' ( ) alone
UriUnreserved ==
    LowerChars \cup UpperChars \cup DecDigits \cup {"-", "_", ".", "!", "~", "*", "'", "(", ")"}

\* the escapes of the other characters that stored fields hold
UriEscape(c) ==
    IF c = " " THEN <<"%", "2", "0">>
    ELSE IF c = ":" THEN <<"%", "3", "A">>
    ELSE IF c = "/" THEN <<"%", "2", "F">>
    ELSE IF c = "%" THEN <<"%", "2", "5">>
    ELSE <<"%", "3", "F">>

RECURSIVE EncodeURIComponent(_)
EncodeURIComponent(x) ==
    IF x = <<>> THEN <<>>
    ELSE (IF Head(x) \in UriUnreserved THEN <<Head(x)>> ELSE UriEscape(Head(x)))
            \o EncodeURIComponent(Tail(x))

Str_browse == <<"/", "b", "r", "o", "w", "s", "e">>
Str_submit_fork == <<"/", "s", "u", "b", "m", "i", "t", "?", "f", "o", "r", "k", "=", "t", "r", "u", "e", "&", "n", "a", "m", "e", "=">>
Str_and_description == <<"&", "d", "e", "s", "c", "r", "i", "p", "t", "i", "o", "n", "=">>
Str_and_category == <<"&", "c", "a", "t", "e", "g", "o", "r", "y", "=">>
Str_and_link == <<"&", "l", "i", "n", "k", "=">>
Str_and_original == <<"&", "o", "r", "i", "g", "i", "n", "a", "l", "_", "a", "g", "e", "n", "t", "_", "i", "d", "=">>
Str_Fork_of == <<"F", "o", "r", "k", " ", "o", "f", " ">>

\* forkData and the address of the pre-filled form
ForkLocation(row, id) ==
    Str_submit_fork \o EncodeURIComponent(Str_Fork_of \o row.name)
      \o Str_and_description \o EncodeURIComponent(row.description)
      \o Str_and_category \o EncodeURIComponent(row.category)
      \o Str_and_link \o EncodeURIComponent(row.link)
      \o Str_and_original \o ToDecimal(id)

ForkPageCounting(id, dbErr) ==
    LET agentId == ParseInt(id)
        found == ~IsNaN(agentId) /\ ~dbErr /\ Num(agentId) \in 1..Len(agents)
    IN  /\ last' = [op |-> "fork", id |-> id, status |-> 302,
                    location |-> IF found
                                 THEN ForkLocation(agents[Num(agentId)], Num(agentId))
                                 ELSE Str_browse]
        /\ agents' = IF found THEN IncrementForkCount(agents, Num(agentId)) ELSE agents
        /\ UNCHANGED <<sessionVars, ratings, pendingIncr, raters, storeFailed>>

\* GET /fork/:id: SELECT * FROM agents WHERE id = ?, then a redirect
ForkPage(id, dbErr) ==
    LET agentId == ParseInt(id)
        found == ~IsNaN(agentId) /\ ~dbErr /\ Num(agentId) \in 1..Len(agents)
    IN  /\ last' = [op |-> "fork", id |-> id, status |-> 302,
                    location |-> IF found
                                 THEN ForkLocation(agents[Num(agentId)], Num(agentId))
                                 ELSE Str_browse]
        /\ UNCHANGED <<sessionVars, storeVars, storeFailed>>

\* the :id of a request: an id, an id followed by text, a negative number and
\* text that is no number
ForkIds == {<<"1">>, <<"2">>, <<"1", "x">>, <<"-", "1">>, <<"x">>}

-----------------------------------------------------------------------------
(* Specifications *)

NextSession ==
    \/ \E w \in LoginWallets, dbErr \in BOOLEAN : Login(w, dbErr)
    \/ \E w \in Wallets, k \in Tokens : LoginCallback(w, k)
    \/ \E k \in TokenHeaders : Logout(k)
    \/ \E k \in TokenHeaders, dbErr \in BOOLEAN : Profile(k, dbErr)
    \/ Tick

SpecSession == Init /\ [][NextSession]_vars


\* submissions and the fork_count updates they queue
NextSubmit ==
    \/ \E req \in SubmitRequests, dbErr \in BOOLEAN : Submit(req, UNDEF, dbErr)
    \/ \E id \in 1..MaxAgents, dbErr \in BOOLEAN : ForkCountUpdate(id, dbErr)

SpecSubmit == Init /\ [][NextSubmit]_vars

\* anonymous ratings, of agents that exist and of agents that do not
NextRating ==
    \/ \E req \in RateRequests, dbErr \in BOOLEAN : Rate(req, UNDEF, dbErr)
    \/ Submit(BaseSubmit, UNDEF, FALSE)

SpecRating == Init /\ [][NextRating]_vars

\* ratings by wallets that log in and out
NextWalletRating ==
    \/ \E w \in Wallets : Login(w, FALSE)
    \/ \E w \in Wallets, k \in Tokens : LoginCallback(w, k)
    \/ \E k \in Tokens : Logout(k)
    \/ \E k \in Tokens \cup {UNDEF} : Rate(BaseRate, k, FALSE)

SpecWalletRating == Init /\ [][NextWalletRating]_vars

\* submissions and filtered listings
NextBrowseFilter ==
    \/ \E req \in {BaseSubmit, OtherSubmit} : Submit(req, UNDEF, FALSE)
    \/ \E q \in FilterQueries, dbErr \in BOOLEAN : Browse(q, dbErr)

SpecBrowseFilter == Init /\ [][NextBrowseFilter]_vars

\* forks, ratings and sorted listings
ForkOfFirst == [BaseSubmit EXCEPT !.original_agent_id = <<"1">>]

SortedRates == {BaseRate, [BaseRate EXCEPT !.agent_id = <<"2">>]}

NextBrowseSort ==
    \/ \E req \in {BaseSubmit, ForkOfFirst} : Submit(req, UNDEF, FALSE)
    \/ \E id \in 1..MaxAgents : ForkCountUpdate(id, FALSE)
    \/ \E req \in SortedRates : Rate(req, UNDEF, FALSE)
    \/ \E q \in SortQueries, dbErr \in BOOLEAN : Browse(q, dbErr)

SpecBrowseSort == Init /\ [][NextBrowseSort]_vars

\* one agent, its ratings and listings
RatedRates ==
    {BaseRate,
     [BaseRate EXCEPT !.stars = <<"1">>, !.comment = Str_ok],
     [BaseRate EXCEPT !.agent_id = <<"2">>]}

NextBrowseRated ==
    \/ Submit(BaseSubmit, UNDEF, FALSE)
    \/ \E req \in RatedRates, dbErr \in BOOLEAN : Rate(req, UNDEF, dbErr)
    \/ \E q \in SortQueries : Browse(q, FALSE)

SpecBrowseRated == Init /\ [][NextBrowseRated]_vars

\* submissions by wallets that log in and out
NextWalletSubmit ==
    \/ \E w \in Wallets : Login(w, FALSE)
    \/ \E w \in Wallets, k \in Tokens : LoginCallback(w, k)
    \/ \E k \in Tokens : Logout(k)
    \/ \E k \in Tokens \cup {UNDEF} : Submit(BaseSubmit, k, FALSE)

SpecWalletSubmit == Init /\ [][NextWalletSubmit]_vars

\* fork pages among logins, submissions and ratings
NextFork ==
    \/ Login(WalletA, FALSE)
    \/ LoginCallback(WalletA, TokenA)
    \/ \E req \in {BaseSubmit, ForkOfFirst} : Submit(req, UNDEF, FALSE)
    \/ \E id \in 1..MaxAgents : ForkCountUpdate(id, FALSE)
    \/ Rate(BaseRate, UNDEF, FALSE)
    \/ \E id \in ForkIds, dbErr \in BOOLEAN : ForkPage(id, dbErr)

SpecFork == Init /\ [][NextFork]_vars

\* the store under every operation that reads or writes agents
NextStore ==
    \/ \E req \in {BaseSubmit, ForkOfFirst} : Submit(req, UNDEF, FALSE)
    \/ \E id \in 1..MaxAgents, dbErr \in BOOLEAN : ForkCountUpdate(id, dbErr)
    \/ Rate(BaseRate, UNDEF, FALSE)
    \/ \E id \in {<<"1">>, <<"x">>} : ForkPage(id, FALSE)
    \/ Browse([category |-> UNDEF, search |-> UNDEF, sort |-> Str_forks], FALSE)

SpecStore == Init /\ [][NextStore]_vars

\* the whole server
Next ==
    \/ NextSession
    \/ \E req \in SubmitRequests, k \in TokenHeaders, dbErr \in BOOLEAN :
          Submit(req, k, dbErr)
    \/ \E id \in 1..MaxAgents, dbErr \in BOOLEAN : ForkCountUpdate(id, dbErr)
    \/ \E req \in RateRequests, k \in TokenHeaders, dbErr \in BOOLEAN :
          Rate(req, k, dbErr)
    \/ \E id \in ForkIds, dbErr \in BOOLEAN : ForkPage(id, dbErr)
    \/ \E q \in BrowseQueries, dbErr \in BOOLEAN : Browse(q, dbErr)

Spec == Init /\ [][Next]_vars

-----------------------------------------------------------------------------
(* Properties *)

Ids == 1..Len(agents)

\* the agents whose original_agent_id is id
ForksOf(id) == {j \in Ids : agents[j].original_agent_id = {id}}

\* the text starts, after white space and a sign, with a decimal digit
LooksInteger(s) ==
    /\ s \notin {UNDEF, NULL}
    /\ LET t == SkipWhite(s)
           u == IF t # <<>> /\ Head(t) \in {"-", "+"} THEN Tail(t) ELSE t
       IN  u # <<>> /\ Head(u) \in DecDigits

\* C1: once every submission has run to completion with no store failure,
\* each agent's fork_count is the number of agents whose original_agent_id
\* is its id.
C1_ForkCountIsNumberOfForks ==
    (pendingIncr = EmptyBag /\ ~storeFailed)
        => \A i \in Ids : agents[i].fork_count = Cardinality(ForksOf(i))

\* C2: for an agent that existed when each of its forks was submitted, the
\* fork_count and the increments still queued add up to the number of its
\* forks in every interleaving of inserts and increments, so that k forks end
\* with fork_count raised by exactly k.
C2_NoLostForkIncrement ==
    ~storeFailed =>
        \A i \in Ids :
            (\A j \in ForksOf(i) : j >= i) =>
                agents[i].fork_count + CopiesIn(i, pendingIncr)
                    = Cardinality(ForksOf(i))

C2_Witness ==
    /\ ~storeFailed
    /\ pendingIncr = EmptyBag
    /\ last.op = "forkCountUpdate"
    /\ Len(agents) = 3
    /\ ForksOf(1) = {2, 3}
    /\ agents[1].fork_count = 2

\* C3: no two rating rows were created for the same agent by requests of the
\* same logged-in wallet.
C3_OneRatingPerWalletAndAgent ==
    \A i, j \in 1..Len(ratings) :
        (i < j /\ raters[i] # UNDEF /\ raters[i] = raters[j])
            => ratings[i].agent_id # ratings[j].agent_id

RatingInputBad(req) ==
    \/ ~LooksInteger(req.agent_id)
    \/ ~LooksInteger(req.stars)
    \/ IsNaN(ParseInt(req.stars))
    \/ Num(ParseInt(req.stars)) \notin 1..5

\* C4: a rating whose agent_id or stars is no integer, or whose stars is
\* outside 1..5, changes nothing in the store, and every rating row holds
\* stars in 1..5.
C4_BadRatingWritesNothing ==
    [][ /\ (last'.op = "rate" /\ RatingInputBad(last'.req))
            => UNCHANGED <<agents, ratings, users, pendingIncr>>
        /\ \A i \in 1..Len(ratings') :
              /\ ratings'[i].stars # {}
              /\ ratings'[i].stars \subseteq 1..5 ]_vars

C4_Witness ==
    /\ last.op = "rate"
    /\ last.req.stars = <<"6">>
    /\ Len(ratings) >= 1
    /\ Len(agents) >= 1

\* C5: the agent a successful submission created is stored with the submitted
\* name, description, category, link, content hash, premium flag and lineage
\* pointer, and with fork_count 0.
C5_StoredAgentEqualsInput ==
    (last.op = "submit" /\ last.status = 302) =>
        LET row == agents[last.lastID]
            req == last.req
        IN  /\ row.name = req.name
            /\ row.description = req.description
            /\ row.category = req.category
            /\ row.link = req.link
            /\ row.ipfs_hash = Bind(req.ipfs_hash)
            /\ row.is_premium = (IF Truthy(req.is_premium) THEN 1 ELSE 0)
            /\ row.original_agent_id =
                  (IF Truthy(req.original_agent_id)
                   THEN ParseInt(req.original_agent_id) ELSE {})
            /\ row.fork_count = 0

SubmitInputBad(req) ==
    \/ \E v \in {req.name, req.description, req.category, req.link} :
          v \in {UNDEF, NULL, <<>>}
    \/ ~UrlPatternTest(req.link)

\* C6: a submission with a required field missing or empty, or with a link
\* of the wrong shape, is answered 400, inserts no agent and queues no
\* fork_count update.
C6_BadSubmitWritesNothing ==
    [][ (last'.op = "submit" /\ SubmitInputBad(last'.req))
            => /\ last'.status = 400
               /\ UNCHANGED <<agents, pendingIncr, ratings, users>> ]_vars

C6_Witness ==
    /\ last.op = "submit"
    /\ last.status = 400
    /\ last.req.original_agent_id = <<"1">>
    /\ Len(agents) >= 1

\* C7: a login with no walletAddress, or an empty one, is answered 400 and
\* changes neither the users table nor the session map.
C7_EmptyWalletLoginWritesNothing ==
    [][ (last'.op = "login" /\ last'.walletAddress \in {UNDEF, NULL, <<>>})
            => /\ last'.status = 400
               /\ UNCHANGED <<users, usersSeq, sessions, pendingLogin,
                              agents, ratings>> ]_vars

C7_Witness ==
    /\ last.op = "login"
    /\ last.status = 400
    /\ last.walletAddress = <<>>
    /\ users # {}
    /\ DOMAIN sessions # {}

\* C8: a token resolves to wallet W exactly when a login for W returned it
\* and no logout has named it since; a profile request is answered 401
\* exactly when its token does not resolve, as after a logout.
C8_TokenResolvesIffIssued ==
    /\ \A k \in TokenHeaders :
          CheckSession(k) = (IF k \in DOMAIN issued THEN issued[k] ELSE UNDEF)
    /\ \A k \in DOMAIN revoked : CheckSession(k) = UNDEF
    /\ last.op = "profile" =>
          (last.status = 401 <=> last.sessionId \notin DOMAIN issued)

C8_Witness ==
    /\ last.op = "profile"
    /\ last.status = 401
    /\ last.sessionId \in DOMAIN revoked
    /\ DOMAIN issued # {}

\* C9: a logout answers success, removes the mapping of its token and
\* nothing else, and changes nothing when the token has no mapping.
C9_LogoutRemovesOnlyItsToken ==
    [][ last'.op = "logout" =>
          /\ last'.status = 200
          /\ last'.success = TRUE
          /\ DOMAIN sessions' = (DOMAIN sessions) \ {last'.sessionId}
          /\ \A k \in DOMAIN sessions' : sessions'[k] = sessions[k]
          /\ last'.sessionId \notin DOMAIN sessions => sessions' = sessions ]_vars

C9_Witness ==
    /\ last.op = "logout"
    /\ last.sessionId \in DOMAIN revoked
    /\ \E k \in DOMAIN sessions : sessions[k] = revoked[last.sessionId]

\* C10: a login by a wallet that has a users row leaves the row's id,
\* subscription tier, social handles and creation time as they were, and
\* leaves one row for the wallet.
C10_LoginOnlyTouchesLastLogin ==
    [][ (last'.op = "login" /\ last'.status = 0
           /\ UsersOf(users, last'.walletAddress) # {})
          => /\ Cardinality(UsersOf(users', last'.walletAddress)) = 1
             /\ \E u \in UsersOf(users, last'.walletAddress) :
                  \E v \in UsersOf(users', last'.walletAddress) :
                     /\ v.id = u.id
                     /\ v.subscription_tier = u.subscription_tier
                     /\ v.lens_handle = u.lens_handle
                     /\ v.farcaster_handle = u.farcaster_handle
                     /\ v.created_at = u.created_at ]_vars

-----------------------------------------------------------------------------
(* Listing: filters *)

IsSubstring(x, text) ==
    \E i \in 0..(Len(text) - Len(x)) : SubSeq(text, i + 1, i + Len(x)) = x

ReturnedIds == {last.rows[k].id : k \in 1..Len(last.rows)}

EachOnce == Cardinality(ReturnedIds) = Len(last.rows)

CategoryGiven(q) == q.category # UNDEF /\ q.category # Str_all

\* C11 as stated: a listing returns exactly the agents that pass every filter
\* present, the category filter being equality and the search filter being
\* that the search string occurs in the name or in the description, each
\* agent once
C11_SearchIsSubstring ==
    (last.op = "browse" /\ last.status = 200) =>
        LET q == last.query
        IN  /\ EachOnce
            /\ ReturnedIds =
                 {i \in Ids :
                    /\ CategoryGiven(q) => agents[i].category = q.category
                    /\ q.search # UNDEF =>
                          \/ IsSubstring(q.search, agents[i].name)
                          \/ IsSubstring(q.search, agents[i].description)}

\* the pieces of a search string between its % signs
RECURSIVE SplitAtPercent(_)
SplitAtPercent(x) ==
    IF \A k \in 1..Len(x) : x[k] # "%" THEN <<x>>
    ELSE LET k == CHOOSE i \in 1..Len(x) : x[i] = "%" /\ \A j \in 1..(i - 1) : x[j] # "%"
         IN  <<SubSeq(x, 1, k - 1)>> \o SplitAtPercent(SubSeq(x, k + 1, Len(x)))

SameLetter(c, d) ==
    \/ c = d
    \/ \E i \in 1..26 : {c, d} = {LowerOrder[i], UpperOrder[i]}

\* piece occurs in text at position pos, letters compared without case and
\* _ standing for any one character
PieceAt(piece, text, pos) ==
    /\ pos + Len(piece) - 1 <= Len(text)
    /\ \A k \in 1..Len(piece) :
          piece[k] = "_" \/ SameLetter(piece[k], text[pos + k - 1])

\* the pieces occur in text one after the other, from position from on
RECURSIVE PiecesInOrder(_, _, _)
PiecesInOrder(pieces, text, from) ==
    IF pieces = <<>> THEN TRUE
    ELSE \E pos \in from..(Len(text) + 1) :
            /\ PieceAt(Head(pieces), text, pos)
            /\ PiecesInOrder(Tail(pieces), text, pos + Len(Head(pieces)))

SearchHits(x, text) == PiecesInOrder(SplitAtPercent(x), text, 1)

\* C11, amended: a listing returns exactly the agents that pass every filter
\* present, each once; the category filter is equality, and the search filter
\* is that the search string occurs in the name or in the description with
\* ASCII letters compared without regard to case, _ in the search string
\* standing for any one character and % for any run of characters
C11_ListingPassesEveryFilter ==
    (last.op = "browse" /\ last.status = 200) =>
        LET q == last.query
        IN  /\ EachOnce
            /\ ReturnedIds =
                 {i \in Ids :
                    /\ CategoryGiven(q) => agents[i].category = q.category
                    /\ q.search # UNDEF =>
                          \/ SearchHits(q.search, agents[i].name)
                          \/ SearchHits(q.search, agents[i].description)}

\* both filters present, one agent returned and another left out
C11_Witness ==
    /\ last.op = "browse" /\ last.status = 200
    /\ last.query.category = Str_DeFi /\ last.query.search = Str_BOT
    /\ Len(last.rows) >= 1 /\ Len(last.rows) < Len(agents)

-----------------------------------------------------------------------------
(* Listing: aggregates and orders *)

RatingsOf(id) == {r \in 1..Len(ratings) : ratings[r].agent_id = {id}}

RECURSIVE StarTotal(_)
StarTotal(rs) ==
    IF rs = {} THEN 0
    ELSE LET r == CHOOSE x \in rs : TRUE
         IN  Num(ratings[r].stars) + StarTotal(rs \ {r})

\* the mean of an agent's stars as <<total, number>>, <<0, 1>> without ratings
MeanStars(id) ==
    IF RatingsOf(id) = {} THEN <<0, 1>>
    ELSE <<StarTotal(RatingsOf(id)), Cardinality(RatingsOf(id))>>

Listed == last.op = "browse" /\ last.status = 200

\* C12: under sort=rating the rows come in non-increasing mean of stars, and
\* rows with the same mean in non-increasing number of ratings
C12_RatingSortOrder ==
    (Listed /\ last.query.sort = Str_rating) =>
        \A k, l \in 1..Len(last.rows) :
            k < l =>
              LET x == last.rows[k].id
                  y == last.rows[l].id
              IN  /\ MeanStars(x)[1] * MeanStars(y)[2] >= MeanStars(y)[1] * MeanStars(x)[2]
                  /\ MeanStars(x)[1] * MeanStars(y)[2] = MeanStars(y)[1] * MeanStars(x)[2]
                        => Cardinality(RatingsOf(x)) >= Cardinality(RatingsOf(y))

\* a listing by rating where two rated agents have the same mean and the one
\* with more ratings comes first, followed by an agent of lower mean
C12_Witness ==
    /\ Listed /\ last.query.sort = Str_rating
    /\ Len(last.rows) >= 3
    /\ MeanStars(last.rows[1].id) = <<10, 2>>
    /\ MeanStars(last.rows[2].id) = <<5, 1>>
    /\ MeanStars(last.rows[3].id) = <<0, 1>>

\* C17: every row of a listing carries the number of rating rows of its agent
\* as its rating count and the mean of their stars as its average, the
\* average being the number 0 when the agent has no rating
C17_RowAggregates ==
    Listed =>
        \A k \in 1..Len(last.rows) :
            LET v == last.rows[k]
            IN  /\ v.rating_count = Cardinality(RatingsOf(v.id))
                /\ v.avg_rating # NULL
                /\ v.avg_rating[2] > 0
                /\ v.avg_rating[1] * MeanStars(v.id)[2] = MeanStars(v.id)[1] * v.avg_rating[2]
                /\ RatingsOf(v.id) = {} => v.avg_rating[1] = 0

\* a listing of an agent rated 5 and 1 while a rating names another id
C17_Witness ==
    /\ Listed /\ Len(last.rows) >= 1
    /\ last.rows[1].avg_rating = <<6, 2>> /\ last.rows[1].rating_count = 2
    /\ Len(ratings) = 3

\* C18: under sort=trending the rows come in non-increasing score, the score
\* being 0.7 x fork_count + 0.3 x mean x number of ratings, ten times which is
\* 7 x fork_count + 3 x the sum of the agent's stars
C18_TrendingSortOrder ==
    (Listed /\ last.query.sort = Str_trending) =>
        \A k, l \in 1..Len(last.rows) :
            k < l =>
              LET x == last.rows[k].id
                  y == last.rows[l].id
              IN  7 * agents[x].fork_count + 3 * StarTotal(RatingsOf(x))
                    >= 7 * agents[y].fork_count + 3 * StarTotal(RatingsOf(y))

\* a trending listing led by a rated agent without forks, ahead of an unrated
\* agent with a fork, ahead of an agent with neither
C18_Witness ==
    /\ Listed /\ last.query.sort = Str_trending
    /\ Len(last.rows) >= 3
    /\ agents[last.rows[1].id].fork_count = 0 /\ RatingsOf(last.rows[1].id) # {}
    /\ agents[last.rows[2].id].fork_count > 0 /\ RatingsOf(last.rows[2].id) = {}
    /\ agents[last.rows[3].id].fork_count = 0 /\ RatingsOf(last.rows[3].id) = {}

-----------------------------------------------------------------------------
(* Creator of a submitted agent *)

\* C13: an agent that a submission stores has as creator the wallet that the
\* request's session token resolves to, and no creator when the request has
\* no token or one that resolves to nothing
C13_CreatorIsSessionWallet ==
    (last.op = "submit" /\ last.status = 302) =>
        agents[last.lastID].creator_wallet = last.user

-----------------------------------------------------------------------------
(* Fork pages and fork counts *)

\* C14: a request for a fork page, whether its id names an agent, names none
\* or is no integer, leaves agents, ratings, users and the session map as
\* they were; a fork_count changes only in the update that the submission of
\* a fork of that agent queued
C14_ForkPageWritesNothing ==
    [][ /\ last'.op = "fork" => UNCHANGED <<agents, ratings, users, sessions>>
        /\ \A i \in Ids :
              agents'[i].fork_count # agents[i].fork_count
                  => /\ last'.op = "forkCountUpdate"
                     /\ \E j \in Ids : agents[j].original_agent_id = {i} ]_vars

\* the fork page of an agent that has a fork and a rating, asked for while a
\* wallet is logged in
C14_Witness ==
    /\ last.op = "fork" /\ last.location # Str_browse
    /\ users # {} /\ DOMAIN sessions # {}
    /\ Len(ratings) > 0
    /\ agents[1].fork_count = 1

\* C15: in every state, the fork_count of an agent is at most the number of
\* agents whose original_agent_id is its id
C15_ForkCountAtMostForks ==
    \A i \in Ids : agents[i].fork_count <= Cardinality(ForksOf(i))

\* the increment of an agent with two forks has failed once and run once
C15_Witness ==
    /\ storeFailed
    /\ pendingIncr = EmptyBag
    /\ last.op = "forkCountUpdate"
    /\ Cardinality(ForksOf(1)) = 2
    /\ agents[1].fork_count = 1

\* C16: no step removes an agent or changes a field of an agent other than
\* fork_count; a fork_count changes by +1 only, in the update queued by a
\* submission whose original_agent_id is that agent's id
C16_AgentsOnlyGainForks ==
    [][ /\ Len(agents') >= Len(agents)
        /\ \A i \in Ids :
              /\ [agents'[i] EXCEPT !.fork_count = agents[i].fork_count] = agents[i]
              /\ agents'[i].fork_count \in {agents[i].fork_count, agents[i].fork_count + 1}
              /\ agents'[i].fork_count # agents[i].fork_count
                    => /\ last'.op = "forkCountUpdate"
                       /\ last'.id = i
                       /\ ForksOf(i) # {} ]_vars

\* the second increment of an agent, another agent being stored beside it
C16_Witness ==
    /\ last.op = "forkCountUpdate" /\ ~last.err
    /\ Len(agents) = 3
    /\ agents[1].fork_count = 2
    /\ agents[2].fork_count = 0

-----------------------------------------------------------------------------
(* Anonymous ratings and rated agents *)

\* C19: every valid rating sent without a session that resolves is stored as
\* a new row with no wallet, however many such rows the agent already has
C19_AnonymousRatingsAllStored ==
    [][ (last'.op = "rate" /\ last'.user = UNDEF /\ ~RatingInputBad(last'.req))
          => /\ ~last'.err
             /\ Len(ratings') = Len(ratings) + 1
             /\ SubSeq(ratings', 1, Len(ratings)) = ratings
             /\ ratings'[Len(ratings')].wallet_address = NULL
             /\ ratings'[Len(ratings')].agent_id = ParseInt(last'.req.agent_id)
             /\ ratings'[Len(ratings')].stars = ParseInt(last'.req.stars) ]_vars

\* a third rating of the same agent sent without a session
C19_Witness ==
    /\ last.op = "rate" /\ last.user = UNDEF /\ ~last.err
    /\ Len(ratings) = 3
    /\ \A i \in 1..3 : raters[i] = UNDEF /\ ratings[i].agent_id = {1}

\* C20: the agent_id of every rating row is the id of a stored agent
C20_RatingNamesStoredAgent ==
    \A r \in 1..Len(ratings) : ratings[r].agent_id # {} /\ ratings[r].agent_id \subseteq Ids

-----------------------------------------------------------------------------
(* Sessions and users *)

\* C21: in every state, every entry of the session map holds a wallet address
\* that a row of users has, and so does every login whose statement has
\* succeeded and whose callback has yet to create the session
C21_SessionWalletHasUser ==
    /\ \A k \in DOMAIN sessions : UsersOf(users, sessions[k]) # {}
    /\ \A w \in BagToSet(pendingLogin) : UsersOf(users, w) # {}

\* two wallets hold sessions and one of them has just logged in again, its row
\* of users replaced by the upsert, the callback yet to run
C21_Witness ==
    /\ last.op = "login" /\ last.status = 0
    /\ DOMAIN sessions = Tokens
    /\ sessions[TokenA] # sessions[TokenB]
    /\ Cardinality(users) = 2
    /\ usersSeq = 3
    /\ pendingLogin # EmptyBag

====
